---- MODULE Spec2Model ----
(***************************************************************************)
(* Fila de Atendimento (src/fila_atendimento.py): the single-server queue  *)
(* simulation `simular`, its two queue structures (three deques by type,   *)
(* or one heap), and the two hand-written sorts used to order arrivals.    *)
(*                                                                         *)
(* Times are minutes.  The program holds them as floats; the model draws   *)
(* them from small integer ranges, on which float arithmetic is exact.     *)
(* A Cliente object is referred to by its position in the input list       *)
(* (object identity); its id field equals that position.                   *)
(***************************************************************************)
EXTENDS Integers, Sequences, FiniteSets, TLC

VARIABLES
    clientes,        \* the input list of Cliente objects (fields are mutated by simular)
    estrutura,       \* parameter: "lista" | "prioridade"
    algoritmo_ord,   \* parameter: "merge" | "quick"
    reorder_rule,    \* parameter: "por_prioridade" | "por_chegada"
    registrar_undo,  \* parameter: BOOLEAN
    mapa,            \* id -> Cliente
    chegadas,        \* the arrivals, sorted by chegada
    filas,           \* estrutura = "lista": type -> deque of clients
    heap,            \* estrutura = "prioridade": the heap's entries
    counter,         \* the heap's insertion counter
    atendidos,       \* served clients, in dispatch order
    undo_stack,
    current_time,
    idx_chegada,     \* number of arrivals already admitted
    prox,            \* the client just popped (Nenhum when none)
    stats,
    pc               \* position in simular

vars == << clientes, estrutura, algoritmo_ord, reorder_rule, registrar_undo, mapa,
           chegadas, filas, heap, counter, atendidos, undo_stack, current_time,
           idx_chegada, prox, stats, pc >>

----------------------------------------------------------------------------
(* Bounds of the model *)

MaxClientes == 3
MaxChegada == 2
MaxServico == 1

----------------------------------------------------------------------------
(* Python values *)

\* None, for a field that holds either None or a number (held as <<number>>)
None == << >>
Some(v) == << v >>
Val(o) == o[1]

\* pop_next's None
Nenhum == 0

\* mutant of max: the smaller of the two
max_menor(a, b) == IF b < a THEN b ELSE a

max(a, b) == IF b > a THEN b ELSE a

\* str.lower() on the type strings the model feeds in
lower(t) ==
    CASE t = "Comum" -> "comum"
      [] t = "VIP" -> "vip"
      [] OTHER -> t

\* Cliente.__init__
Cliente(cid, tipo, tempo_servico, chegada) ==
    [ id |-> cid,
      tipo |-> lower(tipo),
      tempo_servico |-> tempo_servico,
      chegada |-> chegada,
      inicio_atendimento |-> None,
      termino_atendimento |-> None ]

\* Cliente.espera
espera(c) ==
    IF c.inicio_atendimento = None THEN None
    ELSE Some(Val(c.inicio_atendimento) - c.chegada)

PRIORIDADE_TIPO ==
    [ t \in {"corporativo", "preferencial", "comum"} |->
        CASE t = "corporativo" -> 1
          [] t = "preferencial" -> 2
          [] t = "comum" -> 3 ]

\* mutant of tipo_prioridade: the default 0 in place of 99
tipo_prioridade_padrao_zero(tipo) ==
    IF lower(tipo) \in DOMAIN PRIORIDADE_TIPO THEN PRIORIDADE_TIPO[lower(tipo)] ELSE 0

tipo_prioridade(tipo) ==
    IF lower(tipo) \in DOMAIN PRIORIDADE_TIPO THEN PRIORIDADE_TIPO[lower(tipo)] ELSE 99

----------------------------------------------------------------------------
(* Sorting: arr is a sequence of elements, key a function giving each
   element's key *)

RECURSIVE merge_runs_sem_resto(_, _, _)
\* mutant of merge_runs: merged.extend(right[j:]) left out
merge_runs_sem_resto(left, right, key) ==
    IF left # << >> /\ right # << >> THEN
        IF key[Head(left)] <= key[Head(right)]
        THEN << Head(left) >> \o merge_runs_sem_resto(Tail(left), right, key)
        ELSE << Head(right) >> \o merge_runs_sem_resto(left, Tail(right), key)
    ELSE left

RECURSIVE merge_runs_estrito(_, _, _)
\* mutant of merge_runs: the comparison < in place of <=
merge_runs_estrito(left, right, key) ==
    IF left # << >> /\ right # << >> THEN
        IF key[Head(left)] < key[Head(right)]
        THEN << Head(left) >> \o merge_runs_estrito(Tail(left), right, key)
        ELSE << Head(right) >> \o merge_runs_estrito(left, Tail(right), key)
    ELSE left \o right

RECURSIVE merge_runs(_, _, _)
\* the merge loop of merge_sort (lines 77-86): takes from the left run on
\* equal keys, then appends what is left of either run
merge_runs(left, right, key) ==
    IF left # << >> /\ right # << >> THEN
        IF key[Head(left)] <= key[Head(right)]
        THEN << Head(left) >> \o merge_runs(Tail(left), right, key)
        ELSE << Head(right) >> \o merge_runs(left, Tail(right), key)
    ELSE left \o right

RECURSIVE merge_sort(_, _)
merge_sort(arr, key) ==
    IF Len(arr) <= 1 THEN arr
    ELSE LET mid == Len(arr) \div 2
             left == merge_sort(SubSeq(arr, 1, mid), key)
             right == merge_sort(SubSeq(arr, mid + 1, Len(arr)), key)
         IN merge_runs(left, right, key)

RECURSIVE quick_sort_pivo_primeiro(_, _)
\* mutant of quick_sort: the pivot element is moved to the front of the
\* elements equal to it
quick_sort_pivo_primeiro(arr, key) ==
    IF Len(arr) <= 1 THEN arr
    ELSE LET p == arr[(Len(arr) \div 2) + 1]
             pivot == key[p]
             lt(x) == key[x] < pivot
             eq(x) == key[x] = pivot /\ x # p
             gt(x) == key[x] > pivot
             left == SelectSeq(arr, lt)
             middle == << p >> \o SelectSeq(arr, eq)
             right == SelectSeq(arr, gt)
         IN quick_sort_pivo_primeiro(left, key) \o middle
              \o quick_sort_pivo_primeiro(right, key)

RECURSIVE quick_sort(_, _)
quick_sort(arr, key) ==
    IF Len(arr) <= 1 THEN arr
    ELSE LET pivot == key[arr[(Len(arr) \div 2) + 1]]
             lt(x) == key[x] < pivot
             eq(x) == key[x] = pivot
             gt(x) == key[x] > pivot
             left == SelectSeq(arr, lt)
             middle == SelectSeq(arr, eq)
             right == SelectSeq(arr, gt)
         IN quick_sort(left, key) \o middle \o quick_sort(right, key)

complexity_hint(alg) ==
    CASE alg = "merge" -> "O(n log n)"
      [] alg = "quick" -> "O(n log n) (pior caso O(n^2) se pivo ruim)"
      [] OTHER -> "Desconhecida"

----------------------------------------------------------------------------
(* The queue.  s is the state of one run of simular, a record with one
   field per variable. *)

\* mutant of HeapEntry: the arrival time placed before the priority
HeapEntry_chegada_primeiro(s, c) ==
    << s.clientes[c].chegada, tipo_prioridade(s.clientes[c].tipo), s.counter, c >>

\* the counter negated, so that of two entries equal in priority and
\* arrival the later pushed is the smaller
HeapEntry_contador_invertido(s, c) ==
    << tipo_prioridade(s.clientes[c].tipo), s.clientes[c].chegada, 0 - s.counter, c >>

\* the heap's entry for client c: (priority, arrival_time, counter, cliente)
HeapEntry(s, c) ==
    << tipo_prioridade(s.clientes[c].tipo), s.clientes[c].chegada, s.counter, c >>

\* Python's tuple order on heap entries; the counter is unique, so the
\* Cliente in the last place is never compared
TupleLess(a, b) ==
    \/ a[1] < b[1]
    \/ a[1] = b[1] /\ a[2] < b[2]
    \/ a[1] = b[1] /\ a[2] = b[2] /\ a[3] < b[3]

\* heapq: the entry heappop returns
HeapMin(h) == CHOOSE e \in h : \A f \in h : f = e \/ TupleLess(e, f)

\* any(len(q) > 0 for q in filas.values()) / bool(heap)
QueueNonEmpty(s) ==
    IF s.estrutura = "lista"
    THEN \E t \in DOMAIN s.filas : Len(s.filas[t]) > 0
    ELSE s.heap # {}

\* mutant of push: appendleft in place of append
push_appendleft(s, c) ==
    IF s.estrutura = "lista" THEN
        IF s.clientes[c].tipo \in DOMAIN s.filas
        THEN [s EXCEPT !.filas[s.clientes[c].tipo] = << c >> \o @]
        ELSE [s EXCEPT !.pc = "erro"]
    ELSE [s EXCEPT !.heap = @ \cup { HeapEntry(s, c) }, !.counter = @ + 1]

\* mutant of push: a client whose type has no deque is left out, without
\* an exception
push_ignora(s, c) ==
    IF s.estrutura = "lista" THEN
        IF s.clientes[c].tipo \in DOMAIN s.filas
        THEN [s EXCEPT !.filas[s.clientes[c].tipo] = Append(@, c)]
        ELSE s
    ELSE [s EXCEPT !.heap = @ \cup { HeapEntry(s, c) }, !.counter = @ + 1]

\* push(cliente): filas[cliente.tipo].append raises KeyError on a type that
\* has no deque, which ends the run (pc = "erro")
push(s, c) ==
    IF s.estrutura = "lista" THEN
        IF s.clientes[c].tipo \in DOMAIN s.filas
        THEN [s EXCEPT !.filas[s.clientes[c].tipo] = Append(@, c)]
        ELSE [s EXCEPT !.pc = "erro"]
    ELSE [s EXCEPT !.heap = @ \cup { HeapEntry(s, c) }, !.counter = @ + 1]

\* mutant of pop_from_filas_deque: the types inspected in the reverse order
pop_from_filas_deque_reversed(fs) ==
    IF fs["comum"] # << >> THEN "comum"
    ELSE IF fs["preferencial"] # << >> THEN "preferencial"
    ELSE IF fs["corporativo"] # << >> THEN "corporativo"
    ELSE "nenhuma"

\* the type of the first non-empty deque in the order corporativo,
\* preferencial, comum ("nenhuma" when all are empty)
pop_from_filas_deque(fs) ==
    IF fs["corporativo"] # << >> THEN "corporativo"
    ELSE IF fs["preferencial"] # << >> THEN "preferencial"
    ELSE IF fs["comum"] # << >> THEN "comum"
    ELSE "nenhuma"

\* pop_next(): the state with prox set and the client removed
pop_next(s) ==
    IF s.estrutura = "lista" THEN
        LET t == pop_from_filas_deque(s.filas) IN
        IF t = "nenhuma" THEN [s EXCEPT !.prox = Nenhum]
        ELSE [s EXCEPT !.prox = Head(s.filas[t]), !.filas[t] = Tail(@)]
    ELSE
        IF s.heap = {} THEN [s EXCEPT !.prox = Nenhum]
        ELSE LET e == HeapMin(s.heap) IN
             [s EXCEPT !.prox = e[4], !.heap = @ \ {e}]

RECURSIVE Admitir_estrito(_)
\* mutant of Admitir: the comparison < in place of <=
Admitir_estrito(s) ==
    IF /\ s.idx_chegada < Len(s.chegadas)
       /\ s.clientes[s.chegadas[s.idx_chegada + 1]].chegada < s.current_time
    THEN LET t == push(s, s.chegadas[s.idx_chegada + 1]) IN
         IF t.pc = "erro" THEN t
         ELSE Admitir_estrito([t EXCEPT !.idx_chegada = @ + 1])
    ELSE s

RECURSIVE Admitir(_)
\* while idx_chegada < n and chegadas[idx_chegada].chegada <= current_time:
\*     push(chegadas[idx_chegada]); idx_chegada += 1
Admitir(s) ==
    IF /\ s.idx_chegada < Len(s.chegadas)
       /\ s.clientes[s.chegadas[s.idx_chegada + 1]].chegada <= s.current_time
    THEN LET t == push(s, s.chegadas[s.idx_chegada + 1]) IN
         IF t.pc = "erro" THEN t
         ELSE Admitir([t EXCEPT !.idx_chegada = @ + 1])
    ELSE s

----------------------------------------------------------------------------
(* simular, one operator per block of its body *)

RECURSIVE sum(_)
sum(xs) == IF xs = << >> THEN 0 ELSE Head(xs) + sum(Tail(xs))

RECURSIVE gcd(_, _)
gcd(a, b) == IF b = 0 THEN a ELSE gcd(b, a % b)

\* a / b for a >= 0 and b > 0, held exactly as a fraction in lowest terms
Quociente(a, b) == LET g == gcd(a, b) IN [num |-> a \div g, den |-> b \div g]

\* mutant of MediaEspera: floor division
MediaEspera_inteira(total_espera, n_atendidos) ==
    IF n_atendidos > 0 THEN [num |-> total_espera \div n_atendidos, den |-> 1]
    ELSE Quociente(0, 1)

\* line 220: total_espera / n_atendidos if n_atendidos > 0 else 0
MediaEspera(total_espera, n_atendidos) ==
    IF n_atendidos > 0 THEN Quociente(total_espera, n_atendidos) ELSE Quociente(0, 1)

\* lines 132-169: mapa, the sorted arrivals, the queue and the counters
Ordenar(s) ==
    LET ids == [i \in 1..Len(s.clientes) |-> i]
        key_chegada == [i \in 1..Len(s.clientes) |-> s.clientes[i].chegada]
    IN [s EXCEPT
          !.mapa = [i \in { s.clientes[j].id : j \in 1..Len(s.clientes) } |-> i],
          !.chegadas = IF s.algoritmo_ord = "merge"
                       THEN merge_sort(ids, key_chegada)
                       ELSE quick_sort(ids, key_chegada),
          !.filas = [t \in {"corporativo", "preferencial", "comum"} |-> << >>],
          !.heap = {},
          !.counter = 0,
          !.atendidos = << >>,
          !.undo_stack = << >>,
          !.current_time = 0,
          !.idx_chegada = 0,
          !.pc = "laco"]

\* mutant of Continua: the loop runs only while arrivals remain
Continua_so_chegadas(s) == s.idx_chegada < Len(s.chegadas)

\* line 172: the loop's condition
Continua(s) == s.idx_chegada < Len(s.chegadas) \/ QueueNonEmpty(s)

\* mutant of Salta: the clock jumps whenever arrivals remain
Salta_sempre(s) == s.idx_chegada < Len(s.chegadas)

\* line 174: arrivals remain and the queue is empty
Salta(s) == s.idx_chegada < Len(s.chegadas) /\ ~QueueNonEmpty(s)

\* lines 172-180: the loop test; with an empty queue the clock jumps to the
\* next arrival; then everyone who has arrived by current_time is admitted
Laco(s) ==
    IF Continua(s) THEN
        LET t == IF Salta(s)
                 THEN [s EXCEPT !.current_time =
                          max(@, s.clientes[s.chegadas[s.idx_chegada + 1]].chegada)]
                 ELSE s
            u == Admitir(t)
        IN IF u.pc = "erro" THEN u ELSE [u EXCEPT !.pc = "escolher"]
    ELSE [s EXCEPT !.pc = "estatisticas"]

\* lines 183-190: pop the next client; with none, jump to the next arrival
\* and go round again, or leave the loop
Escolher(s) ==
    LET t == pop_next(s) IN
    IF t.prox = Nenhum THEN
        IF t.idx_chegada < Len(t.chegadas)
        THEN [t EXCEPT !.current_time =
                 max(@, t.clientes[t.chegadas[t.idx_chegada + 1]].chegada),
                       !.pc = "laco"]
        ELSE [t EXCEPT !.pc = "estatisticas"]
    ELSE [t EXCEPT !.pc = "atender"]

\* mutant of Termino: the service counted from the arrival
Termino_da_chegada(c, inicio) == c.chegada + c.tempo_servico

\* line 196: termino_atendimento
Termino(c, inicio) == inicio + c.tempo_servico

\* the client recorded for undo whatever registrar_undo says
Registra_sempre(s) == Append(s.undo_stack, s.prox)

\* lines 202-203: the client is recorded for undo only if registrar_undo
Registra(s) == IF s.registrar_undo THEN Append(s.undo_stack, s.prox) ELSE s.undo_stack

\* the clock left where it stood when the service began
NovoTempo_parado(s, termino) == s.current_time

\* line 199: current_time = termino, the server is busy until the service ends
NovoTempo(s, termino) == termino

\* lines 195-214: timestamp the client, advance the clock, record it, and
\* admit the arrivals that occurred during the service
Atender(s) ==
    LET c == s.clientes[s.prox]
        inicio == max(s.current_time, c.chegada)
        termino == Termino(c, inicio)
        t == [s EXCEPT !.clientes[s.prox].inicio_atendimento = Some(inicio),
                       !.clientes[s.prox].termino_atendimento = Some(termino),
                       !.current_time = NovoTempo(s, termino),
                       !.atendidos = Append(@, s.prox),
                       !.undo_stack = Registra(s)]
        u == Admitir(t)
    IN IF u.pc = "erro" THEN u ELSE [u EXCEPT !.pc = "laco"]

\* lines 217-233: the statistics, and the return
Estatisticas(s) ==
    LET esperas == [i \in 1..Len(s.atendidos) |-> espera(s.clientes[s.atendidos[i]])]
        contadas == SelectSeq(esperas, LAMBDA e : e # None)
        total_espera == sum([i \in 1..Len(contadas) |-> Val(contadas[i])])
        total_atendimento ==
            sum([i \in 1..Len(s.atendidos) |-> s.clientes[s.atendidos[i]].tempo_servico])
        n_atendidos == Len(s.atendidos)
        media_espera == MediaEspera(total_espera, n_atendidos)
    IN [s EXCEPT
          !.stats = [ n_atendidos |-> n_atendidos,
                      tempo_total_espera |-> total_espera,
                      tempo_medio_espera |-> media_espera,
                      tempo_total_atendimento |-> total_atendimento,
                      estrutura |-> s.estrutura,
                      algoritmo_ordenacao |-> s.algoritmo_ord,
                      reorder_rule |-> s.reorder_rule,
                      complexidade_media_ord |-> complexity_hint(s.algoritmo_ord) ],
          !.pc = "fim"]

\* one step of simular from state s
Passo(s) ==
    CASE s.pc = "ordenar" -> Ordenar(s)
      [] s.pc = "laco" -> Laco(s)
      [] s.pc = "escolher" -> Escolher(s)
      [] s.pc = "atender" -> Atender(s)
      [] s.pc = "estatisticas" -> Estatisticas(s)
      [] OTHER -> s

RECURSIVE Executar(_)
\* the run from state s to its end (the return, or the exception)
Executar(s) == IF s.pc \in {"fim", "erro"} THEN s ELSE Executar(Passo(s))

\* the state in which simular(cs, estrutura, algoritmo_ord, reorder_rule,
\* registrar_undo) is entered
Chamada(cs, e, a, r, u) ==
    [ clientes |-> cs, estrutura |-> e, algoritmo_ord |-> a, reorder_rule |-> r,
      registrar_undo |-> u, mapa |-> << >>, chegadas |-> << >>, filas |-> << >>,
      heap |-> {}, counter |-> 0, atendidos |-> << >>, undo_stack |-> << >>,
      current_time |-> 0, idx_chegada |-> 0, prox |-> Nenhum, stats |-> << >>,
      pc |-> "ordenar" ]

\* simular as a function of its arguments: the final state of the run
simular(cs, e, a, r, u) == Executar(Chamada(cs, e, a, r, u))

----------------------------------------------------------------------------
(* The state machine *)

Estado ==
    [ clientes |-> clientes, estrutura |-> estrutura, algoritmo_ord |-> algoritmo_ord,
      reorder_rule |-> reorder_rule, registrar_undo |-> registrar_undo, mapa |-> mapa,
      chegadas |-> chegadas, filas |-> filas, heap |-> heap, counter |-> counter,
      atendidos |-> atendidos, undo_stack |-> undo_stack,
      current_time |-> current_time, idx_chegada |-> idx_chegada, prox |-> prox,
      stats |-> stats, pc |-> pc ]

Atribui(s) ==
    /\ clientes' = s.clientes
    /\ estrutura' = s.estrutura
    /\ algoritmo_ord' = s.algoritmo_ord
    /\ reorder_rule' = s.reorder_rule
    /\ registrar_undo' = s.registrar_undo
    /\ mapa' = s.mapa
    /\ chegadas' = s.chegadas
    /\ filas' = s.filas
    /\ heap' = s.heap
    /\ counter' = s.counter
    /\ atendidos' = s.atendidos
    /\ undo_stack' = s.undo_stack
    /\ current_time' = s.current_time
    /\ idx_chegada' = s.idx_chegada
    /\ prox' = s.prox
    /\ stats' = s.stats
    /\ pc' = s.pc

Inicia(s) ==
    /\ clientes = s.clientes
    /\ estrutura = s.estrutura
    /\ algoritmo_ord = s.algoritmo_ord
    /\ reorder_rule = s.reorder_rule
    /\ registrar_undo = s.registrar_undo
    /\ mapa = s.mapa
    /\ chegadas = s.chegadas
    /\ filas = s.filas
    /\ heap = s.heap
    /\ counter = s.counter
    /\ atendidos = s.atendidos
    /\ undo_stack = s.undo_stack
    /\ current_time = s.current_time
    /\ idx_chegada = s.idx_chegada
    /\ prox = s.prox
    /\ stats = s.stats
    /\ pc = s.pc

\* the types, service times and arrival times of well-formed input records
TiposValidos == {"corporativo", "preferencial", "comum", "Comum"}
Servicos == 0..MaxServico
Chegadas == 0..MaxChegada

\* before simular is called: the list being loaded, nothing else assigned
Carregando(cs) ==
    [Chamada(cs, "lista", "merge", "por_prioridade", FALSE) EXCEPT !.pc = "entrada"]

Init == Inicia(Carregando(<< >>))

\* carregar_csv, lines 115-118: one more record becomes a Cliente of the list
Carrega(tipos, servicos, tempos) ==
    /\ pc = "entrada"
    /\ Len(clientes) < MaxClientes
    /\ \E t \in tipos, d \in servicos, a \in tempos :
        Atribui([Estado EXCEPT !.clientes = Append(@, Cliente(Len(@) + 1, t, d, a))])

\* menu, lines 286-309: the structure and the sort are chosen and simular is
\* called, with reorder_rule and registrar_undo drawn from regras and undos
Chama(regras, undos) ==
    /\ pc = "entrada"
    /\ \E e \in {"lista", "prioridade"}, a \in {"merge", "quick"},
          r \in regras, u \in undos :
        Atribui(Chamada(clientes, e, a, r, u))

CarregaValido == Carrega(TiposValidos, Servicos, Chegadas)

\* reorder_rule and registrar_undo at simular's defaults (line 130)
ChamaPadrao == Chama({"por_prioridade"}, {FALSE})

PassoOrdenar == pc = "ordenar" /\ Atribui(Ordenar(Estado))
PassoLaco == pc = "laco" /\ Atribui(Laco(Estado))
PassoEscolher == pc = "escolher" /\ Atribui(Escolher(Estado))
PassoAtender == pc = "atender" /\ Atribui(Atender(Estado))
PassoEstatisticas == pc = "estatisticas" /\ Atribui(Estatisticas(Estado))

Next ==
    \/ CarregaValido
    \/ ChamaPadrao
    \/ PassoOrdenar
    \/ PassoLaco
    \/ PassoEscolher
    \/ PassoAtender
    \/ PassoEstatisticas

Spec == Init /\ [][Next]_vars

\* a type that is none of the three accepted ones
TiposDesconhecidos == {"VIP"}

CarregaQualquerTipo ==
    Carrega(TiposValidos \cup TiposDesconhecidos, Servicos, Chegadas)

NextTipos ==
    \/ CarregaQualquerTipo
    \/ ChamaPadrao
    \/ PassoOrdenar
    \/ PassoLaco
    \/ PassoEscolher
    \/ PassoAtender
    \/ PassoEstatisticas

\* simular on lists that may hold clients of an unrecognized type
SpecTipos == Init /\ [][NextTipos]_vars

\* a negative number of minutes: float() accepts it (lines 31-32)
Negativos == {-1}

CarregaComNegativos ==
    Carrega(TiposValidos, Servicos \cup Negativos, Chegadas \cup Negativos)

NextNegativos ==
    \/ CarregaComNegativos
    \/ ChamaPadrao
    \/ PassoOrdenar
    \/ PassoLaco
    \/ PassoEscolher
    \/ PassoAtender
    \/ PassoEstatisticas

\* simular on lists that may hold negative service or arrival times
SpecNegativos == Init /\ [][NextNegativos]_vars

\* the input of the specification's concrete scenario: A (comum, 5 minutes,
\* arrives at 0), B (corporativo, 3, at 1), C (preferencial, 2, at 1)
Cenario ==
    << Cliente(1, "comum", 5, 0),
       Cliente(2, "corporativo", 3, 1),
       Cliente(3, "preferencial", 2, 1) >>

InitCenario == Inicia(Carregando(Cenario))

\* menu: any of the options it offers
ChamaQualquer == Chama({"por_prioridade", "por_chegada"}, BOOLEAN)

NextCenario ==
    \/ ChamaQualquer
    \/ PassoOrdenar
    \/ PassoLaco
    \/ PassoEscolher
    \/ PassoAtender
    \/ PassoEstatisticas

\* simular on the scenario's input, under every choice of the menu
SpecCenario == InitCenario /\ [][NextCenario]_vars

NextConfig ==
    \/ CarregaValido
    \/ ChamaQualquer
    \/ PassoOrdenar
    \/ PassoLaco
    \/ PassoEscolher
    \/ PassoAtender
    \/ PassoEstatisticas

\* simular on well-formed lists, under every choice of reorder_rule and
\* registrar_undo
SpecConfig == Init /\ [][NextConfig]_vars

----------------------------------------------------------------------------
(* Vocabulary of the properties *)

Ids == 1..Len(clientes)

InSeq(seq, x) == \E i \in 1..Len(seq) : seq[i] = x

Pos(seq, x) == CHOOSE i \in 1..Len(seq) : seq[i] = x

NoDuplicates(seq) == \A i, j \in 1..Len(seq) : seq[i] = seq[j] => i = j

\* seq holds every element of S exactly once
PermutationOf(seq, S) ==
    /\ NoDuplicates(seq)
    /\ { seq[i] : i \in 1..Len(seq) } = S

\* the rank the specification gives each category
Rank(t) ==
    CASE t = "corporativo" -> 1
      [] t = "preferencial" -> 2
      [] t = "comum" -> 3

Servido(i) == InSeq(atendidos, i)

----------------------------------------------------------------------------
(* C1: conservation.  With every category known, no client is ever served
   twice, and the served list simular returns holds every input client
   exactly once. *)
C1_Conservation ==
    /\ NoDuplicates(atendidos)
    /\ \A i \in 1..Len(atendidos) : atendidos[i] \in Ids
    /\ pc = "fim" => PermutationOf(atendidos, Ids)

\* a finished run of three clients served in an order other than the input's
C1_Witness ==
    /\ pc = "fim"
    /\ Len(clientes) = 3
    /\ atendidos # << 1, 2, 3 >>
    /\ Len(atendidos) = 3

(* C2: timestamps.  Every served client has inicio_atendimento >= chegada
   and termino_atendimento = inicio_atendimento + tempo_servico. *)
C2_Timestamps ==
    \A i \in Ids :
        Servido(i) =>
            /\ clientes[i].inicio_atendimento # None
            /\ clientes[i].termino_atendimento # None
            /\ Val(clientes[i].inicio_atendimento) >= clientes[i].chegada
            /\ Val(clientes[i].termino_atendimento)
                 = Val(clientes[i].inicio_atendimento) + clientes[i].tempo_servico

\* a served client that waited, with a service time above zero
C2_Witness ==
    \E i \in Ids :
        /\ Servido(i)
        /\ Val(clientes[i].inicio_atendimento) > clientes[i].chegada
        /\ clientes[i].tempo_servico > 0

(* C3: priority precedence.  At every dispatch (a client has just been
   popped and is about to be timestamped) the popped client has the lowest
   rank number among the clients not yet served that arrived by
   current_time. *)
C3_PriorityPrecedence ==
    pc = "atender" =>
        \A j \in Ids :
            (~Servido(j) /\ clientes[j].chegada <= current_time)
                => Rank(clientes[prox].tipo) <= Rank(clientes[j].tipo)

\* a dispatch that passes over a lower-priority client that arrived earlier
C3_Witness ==
    /\ pc = "atender"
    /\ \E j \in Ids :
        /\ ~Servido(j)
        /\ j # prox
        /\ clientes[j].chegada < clientes[prox].chegada
        /\ Rank(clientes[prox].tipo) < Rank(clientes[j].tipo)

(* C4: FIFO within a category.  Of two clients of the same category, the
   one with the smaller arrival time is served first. *)
C4_FifoWithinCategory ==
    \A x, y \in Ids :
        ( /\ clientes[x].tipo = clientes[y].tipo
          /\ clientes[x].chegada < clientes[y].chegada
          /\ Servido(y) )
            => /\ Servido(x)
               /\ Pos(atendidos, x) < Pos(atendidos, y)

\* two clients of one category, the later arrival first in the input, both
\* waiting in the queue at once, and both served
C4_Witness ==
    /\ pc = "fim"
    /\ \E x, y \in Ids :
        /\ clientes[x].tipo = clientes[y].tipo
        /\ clientes[x].chegada < clientes[y].chegada
        /\ y < x
        /\ Val(clientes[x].inicio_atendimento) >= clientes[y].chegada
        /\ Servido(x) /\ Servido(y)

\* ascending by arrival time
Ascending(seq) ==
    \A i \in 1..(Len(seq) - 1) : clientes[seq[i]].chegada <= clientes[seq[i + 1]].chegada

\* elements with equal keys stand in seq in the order of the input list,
\* in which element i stands at position i
Stable(seq, key) ==
    \A i, j \in 1..Len(seq) : (i < j /\ key[seq[i]] = key[seq[j]]) => seq[i] < seq[j]

(* C5: sort correctness.  What merge_sort or quick_sort returns for the
   input list (chegadas, once the sort has run) holds every element of the
   input exactly once and is ascending by key. *)
C5_SortCorrect ==
    pc \notin {"entrada", "ordenar"} =>
        /\ Len(chegadas) = Len(clientes)
        /\ PermutationOf(chegadas, Ids)
        /\ Ascending(chegadas)

\* a sorted list of three that is the input reversed
C5_Witness ==
    /\ pc = "laco"
    /\ chegadas = << 3, 2, 1 >>
    /\ atendidos = << >>

(* C6: merge stability.  Elements with equal keys stand in merge_sort's
   result in the same relative order as in its input. *)
C6_MergeStable ==
    (pc \notin {"entrada", "ordenar"} /\ algoritmo_ord = "merge") =>
        Stable(chegadas, [i \in Ids |-> clientes[i].chegada])

\* merge_sort has moved an element past two elements of equal key
C6_Witness ==
    /\ pc = "laco"
    /\ algoritmo_ord = "merge"
    /\ chegadas = << 2, 3, 1 >>
    /\ clientes[2].chegada = clientes[3].chegada
    /\ atendidos = << >>

\* the key functions on lists of at most MaxClientes elements
Chaves == UNION { [1..n -> Chegadas] : n \in 0..MaxClientes }

(* C7, as the specification states it: the Quick variant is not stable,
   there is an input on which quick_sort changes the relative order of two
   elements of equal key.  Stated of the lists no longer than the one
   loaded, once a list of MaxClientes clients is loaded. *)
C7_QuickUnstable ==
    Len(clientes) = MaxClientes =>
        \E key \in Chaves :
            ~Stable(quick_sort([i \in DOMAIN key |-> i], key), key)

(* C7, amended: quick_sort is stable.  Elements with equal keys stand in
   its result in the same relative order as in its input. *)
C7_QuickStable ==
    (pc \notin {"entrada", "ordenar"} /\ algoritmo_ord = "quick") =>
        Stable(chegadas, [i \in Ids |-> clientes[i].chegada])

\* quick_sort has sorted a list whose pivot has an equal-key element on
\* either side of it
C7_Witness ==
    /\ pc = "laco"
    /\ algoritmo_ord = "quick"
    /\ Len(clientes) = 3
    /\ clientes[1].chegada = clientes[2].chegada
    /\ clientes[2].chegada = clientes[3].chegada
    /\ chegadas = << 1, 2, 3 >>
    /\ atendidos = << >>

(* C8: the concrete scenario.  On A (comum, 5, at 0), B (corporativo, 3,
   at 1), C (preferencial, 2, at 1) with the structure 'lista', simular
   serves A, B, C with A 0-5, B 5-8, C 8-10 and reports 3 served, total
   wait 11 (mean 11/3) and total service 10. *)
C8_Scenario ==
    (pc = "fim" /\ estrutura = "lista") =>
        /\ atendidos = << 1, 2, 3 >>
        /\ clientes[1].inicio_atendimento = Some(0)
        /\ clientes[1].termino_atendimento = Some(5)
        /\ clientes[2].inicio_atendimento = Some(5)
        /\ clientes[2].termino_atendimento = Some(8)
        /\ clientes[3].inicio_atendimento = Some(8)
        /\ clientes[3].termino_atendimento = Some(10)
        /\ stats.n_atendidos = 3
        /\ stats.tempo_total_espera = 11
        /\ stats.tempo_medio_espera = [num |-> 11, den |-> 3]
        /\ stats.tempo_total_atendimento = 10

\* the scenario's run under 'lista' has returned
C8_Witness ==
    /\ pc = "fim"
    /\ estrutura = "lista"
    /\ clientes[1].tempo_servico = 5
    /\ Len(atendidos) = 3

RECURSIVE SomaDe(_, _)
\* the sum of f over the finite set S
SomaDe(S, f) ==
    IF S = {} THEN 0
    ELSE LET x == CHOOSE y \in S : TRUE IN f[x] + SomaDe(S \ {x}, f)

ServidosSet == { atendidos[i] : i \in 1..Len(atendidos) }

(* C9: statistics.  In the stats simular returns, n_atendidos is the length
   of the served list, tempo_total_espera the sum over the served clients
   of inicio_atendimento - chegada, tempo_total_atendimento the sum of
   their tempo_servico, and tempo_medio_espera is tempo_total_espera /
   n_atendidos, or 0 when nobody was served; an empty input returns an
   empty served list. *)
C9_Statistics ==
    pc = "fim" =>
        /\ stats.n_atendidos = Len(atendidos)
        /\ stats.tempo_total_espera =
             SomaDe(ServidosSet,
                    [i \in ServidosSet |->
                        Val(clientes[i].inicio_atendimento) - clientes[i].chegada])
        /\ stats.tempo_total_atendimento =
             SomaDe(ServidosSet, [i \in ServidosSet |-> clientes[i].tempo_servico])
        /\ stats.tempo_medio_espera.den > 0
        /\ stats.n_atendidos > 0 =>
             stats.tempo_medio_espera.num * stats.n_atendidos
               = stats.tempo_total_espera * stats.tempo_medio_espera.den
        /\ stats.n_atendidos = 0 => stats.tempo_medio_espera.num = 0
        /\ Len(clientes) = 0 => (atendidos = << >> /\ stats.n_atendidos = 0)

\* a returned run whose mean wait is not a whole number
C9_Witness ==
    /\ pc = "fim"
    /\ stats.n_atendidos = 3
    /\ stats.tempo_total_espera > 0
    /\ stats.tempo_medio_espera.den > 1

\* the input list as it was before the run timestamped it
Original == [i \in Ids |->
    Cliente(clientes[i].id, clientes[i].tipo, clientes[i].tempo_servico,
            clientes[i].chegada)]

\* no two clients of the same category share an arrival time
NoTies ==
    \A x, y \in Ids :
        (x # y /\ clientes[x].tipo = clientes[y].tipo)
            => clientes[x].chegada # clientes[y].chegada

\* the run of simular on the same input and options with the other structure
OutraEstrutura ==
    simular(Original, IF estrutura = "lista" THEN "prioridade" ELSE "lista",
            algoritmo_ord, reorder_rule, registrar_undo)

SameSchedule(o) ==
    /\ o.pc = "fim"
    /\ o.atendidos = atendidos
    /\ \A i \in Ids :
        /\ o.clientes[i].inicio_atendimento = clientes[i].inicio_atendimento
        /\ o.clientes[i].termino_atendimento = clientes[i].termino_atendimento

(* C10: discipline convergence.  When no two clients of the same category
   share an arrival time, simular with 'lista' and with 'prioridade' (same
   sort) return the same served order and the same inicio_atendimento and
   termino_atendimento for every client. *)
C10_Convergence ==
    (pc = "fim" /\ NoTies) => SameSchedule(OutraEstrutura)

\* a returned run of three clients without ties, served in an order that is
\* not the order of arrival
C10_Witness ==
    /\ pc = "fim"
    /\ NoTies
    /\ Len(clientes) = 3
    /\ atendidos # chegadas
    /\ SameSchedule(OutraEstrutura)

\* the queue of the chosen structure holds nobody
FilaVazia ==
    IF estrutura = "lista" THEN \A t \in DOMAIN filas : filas[t] = << >>
    ELSE heap = {}

\* no arrivals remain, the queue is empty, everyone was popped exactly once
Drained ==
    /\ idx_chegada = Len(chegadas)
    /\ Len(chegadas) = Len(clientes)
    /\ FilaVazia
    /\ PermutationOf(atendidos, Ids)

\* a bound on the steps simular has left to take: three for each client
\* not yet served (loop head, pop, dispatch), then the loop's exit, the
\* statistics and, before the loop, the set-up
Medida ==
    LET falta == Len(clientes) - Len(atendidos) IN
    CASE pc = "ordenar" -> 3 * Len(clientes) + 3
      [] pc = "laco" -> 3 * falta + 2
      [] pc = "escolher" -> 3 * falta + 1
      [] pc = "atender" -> 3 * falta
      [] pc = "estatisticas" -> 1
      [] OTHER -> 0

EmCurso == pc \in {"ordenar", "laco", "escolher", "atender", "estatisticas"}

(* C11: termination.  With known categories and non-negative times, the
   main loop of simular terminates under both structures: every step of a
   run lowers a natural-number bound on the steps left, and no run ends in
   an exception (a run that has not returned is at one of the five blocks
   of simular, each of which can always be executed); and the loop is left
   only drained: every arrival admitted (idx_chegada = n), the queue empty,
   every client popped exactly once. *)
C11_Termination ==
    /\ [](pc \in {"estatisticas", "fim"} => Drained)
    /\ [](pc \in {"entrada", "fim"} \/ (EmCurso /\ Medida > 0))
    /\ [][EmCurso => (Medida' < Medida /\ Medida' >= 0)]_vars

\* a run of three clients has left the loop after the clock jumped over an
\* idle gap
C11_Witness ==
    /\ pc = "estatisticas"
    /\ Len(clientes) = 3
    /\ Drained
    /\ \E i \in Ids :
        /\ clientes[i].chegada > 0
        /\ Val(clientes[i].inicio_atendimento) = clientes[i].chegada
        /\ \A j \in Ids \ {i} :
              Val(clientes[j].termino_atendimento) < clientes[i].chegada
              \/ Val(clientes[j].inicio_atendimento) >= clientes[i].chegada

\* the smallest arrival time among the clients of S
PrimeiraChegada(S) ==
    LET x == CHOOSE y \in S : \A z \in S : clientes[y].chegada <= clientes[z].chegada
    IN clientes[x].chegada

\* the clients served before the k-th dispatch
ServidosAntes(k) == { atendidos[j] : j \in 1..(k - 1) }

\* when the server became free before the k-th dispatch
LivreEm(k) ==
    IF k = 1 THEN 0 ELSE Val(clientes[atendidos[k - 1]].termino_atendimento)

(* C12: work-conserving.  Each dispatched client's inicio_atendimento is
   the later of the moment the server became free (termino_atendimento of
   the client served before it, 0 for the first) and the earliest arrival
   time among the clients not served before it; and at each dispatch the
   clock stands at exactly that moment, so an idle clock has jumped to the
   next arrival and no further. *)
C12_WorkConserving ==
    /\ \A k \in 1..Len(atendidos) :
        Val(clientes[atendidos[k]].inicio_atendimento)
          = max(LivreEm(k), PrimeiraChegada(Ids \ ServidosAntes(k)))
    /\ pc = "atender" =>
        current_time = max(LivreEm(Len(atendidos) + 1),
                           PrimeiraChegada(Ids \ ServidosAntes(Len(atendidos) + 1)))

\* a client served on arrival after the server stood idle, while a client
\* that arrives later still is yet to come
C12_Witness ==
    /\ pc = "laco"
    /\ Len(clientes) = 3
    /\ Len(atendidos) = 2
    /\ Val(clientes[atendidos[2]].inicio_atendimento)
         > Val(clientes[atendidos[1]].termino_atendimento)
    /\ idx_chegada = 2

Conhecido(i) == clientes[i].tipo \in {"corporativo", "preferencial", "comum"}

Desconhecidos == { i \in Ids : ~Conhecido(i) }

(* C13, as the specification states it: under 'lista' a client of an
   unrecognized category is silently dropped: it is never popped, the run
   completes normally, and the served list that is returned holds the
   clients of known category and not that client. *)
C13_SilentDrop ==
    (estrutura = "lista" /\ Desconhecidos # {}) =>
        /\ pc # "erro"
        /\ \A i \in Desconhecidos : ~Servido(i) /\ prox # i
        /\ pc = "fim" => PermutationOf(atendidos, Ids \ Desconhecidos)

(* C13, amended: under 'lista' a client of an unrecognized category is
   never queued, popped or served, and the run does not complete: it never
   reaches the statistics or returns, and when it has failed it failed with
   the KeyError of pushing that client, the next arrival to admit. *)
C13_KeyError ==
    (estrutura = "lista" /\ Desconhecidos # {}) =>
        /\ pc \notin {"estatisticas", "fim"}
        /\ \A i \in Desconhecidos :
            /\ ~Servido(i)
            /\ prox # i
            /\ pc # "entrada" => \A t \in DOMAIN filas : ~InSeq(filas[t], i)
        /\ pc = "erro" =>
            /\ idx_chegada < Len(chegadas)
            /\ chegadas[idx_chegada + 1] \in Desconhecidos
            /\ clientes[chegadas[idx_chegada + 1]].chegada <= current_time

\* a run under 'lista' has failed on a client of unrecognized type after
\* serving a client of known type
C13_Witness ==
    /\ pc = "erro"
    /\ estrutura = "lista"
    /\ Desconhecidos # {}
    /\ Len(atendidos) > 0

(* C14: under 'prioridade' a client of an unrecognized category is put in
   the heap with rank 99, is never dispatched while a client of known
   category is in the queue, and is served exactly once before the run
   ends, which it does by returning. *)
C14_UnknownServedLast ==
    estrutura = "prioridade" =>
        /\ pc # "erro"
        /\ \A e \in heap : e[4] \in Desconhecidos => e[1] = 99
        /\ \A e \in heap : e[4] \notin Desconhecidos => e[1] = Rank(clientes[e[4]].tipo)
        /\ (pc = "atender" /\ prox \in Desconhecidos) =>
              \A e \in heap : e[4] \in Desconhecidos
        /\ NoDuplicates(atendidos)
        /\ pc = "fim" => \A i \in Desconhecidos : Servido(i)

\* a returned run under 'prioridade' in which a client of unrecognized type
\* waited in the queue while a client of known type that arrived after it
\* was served
C14_Witness ==
    /\ pc = "fim"
    /\ estrutura = "prioridade"
    /\ \E u \in Desconhecidos, k \in Ids \ Desconhecidos :
        /\ clientes[u].chegada < clientes[k].chegada
        /\ Servido(u) /\ Servido(k)
        /\ Pos(atendidos, k) < Pos(atendidos, u)

TemNegativo == \E i \in Ids : clientes[i].tempo_servico < 0 \/ clientes[i].chegada < 0

\* a client's termino_atendimento is before its inicio_atendimento, or a
\* client starts before the client dispatched just before it started
TimestampsCorrompidos ==
    \/ \E k \in 1..Len(atendidos) :
          Val(clientes[atendidos[k]].termino_atendimento)
            < Val(clientes[atendidos[k]].inicio_atendimento)
    \/ \E k \in 2..Len(atendidos) :
          Val(clientes[atendidos[k]].inicio_atendimento)
            < Val(clientes[atendidos[k - 1]].inicio_atendimento)

(* C15: precondition validation.  If an input client has a negative service
   time or a negative arrival time, simular fails the run instead of
   returning a served list; and it never returns timestamps in which a
   client's termino_atendimento is before its inicio_atendimento, or in
   which a client starts before the client dispatched before it started. *)
C15_RejectsNegative ==
    /\ TemNegativo => pc \notin {"estatisticas", "fim"}
    /\ pc = "fim" => ~TimestampsCorrompidos

(* C16: no partial run on an invalid record.  When a run of simular fails
   because of an invalid record, no input client has had
   inicio_atendimento or termino_atendimento assigned. *)
C16_FailsBeforeTimestamping ==
    pc = "erro" =>
        \A i \in Ids :
            /\ clientes[i].inicio_atendimento = None
            /\ clientes[i].termino_atendimento = None


\* inicio_atendimento and termino_atendimento of the k-th client served
InicioDe(k) == Val(clientes[atendidos[k]].inicio_atendimento)
TerminoDe(k) == Val(clientes[atendidos[k]].termino_atendimento)

(* C17: non-preemptive, dispatch-ordered output.  With non-negative
   durations, along the served list each client's inicio_atendimento is at
   or after the termino_atendimento of the client served just before it, so
   service intervals never overlap and inicio_atendimento is non-decreasing
   along the list; and the list changes only by the dispatch appending the
   client it has just popped and timestamped. *)
C17_NonPreemptive ==
    /\ [](\A k \in 2..Len(atendidos) :
            /\ InicioDe(k) >= TerminoDe(k - 1)
            /\ InicioDe(k) >= InicioDe(k - 1))
    /\ [][ \/ atendidos' = atendidos
           \/ /\ pc = "atender"
              /\ atendidos' = Append(atendidos, prox)
              /\ clientes'[prox].inicio_atendimento # None
              /\ clientes'[prox].termino_atendimento # None ]_vars

\* a returned run of three clients, each with a service that takes time,
\* in which one waited for the server and was not served in input order
C17_Witness ==
    /\ pc = "fim"
    /\ Len(atendidos) = 3
    /\ atendidos # << 1, 2, 3 >>
    /\ \A i \in Ids : clientes[i].tempo_servico > 0
    /\ InicioDe(2) = TerminoDe(1)
    /\ InicioDe(2) > clientes[atendidos[2]].chegada


\* the numbers among the statistics simular returns
Numeros(st) ==
    << st.n_atendidos, st.tempo_total_espera, st.tempo_medio_espera,
       st.tempo_total_atendimento >>

(* C18: configuration non-interference.  For a fixed input, estrutura and
   algoritmo_ord, the served order, every client's inicio_atendimento and
   termino_atendimento and the numeric statistics simular returns are the
   same for every value of reorder_rule and of registrar_undo; and
   registrar_undo only decides whether undo_stack is empty or equal to the
   served list. *)
C18_ConfigNonInterference ==
    /\ pc # "entrada" =>
          undo_stack = IF registrar_undo THEN atendidos ELSE << >>
    /\ pc = "fim" =>
          \A r \in {"por_prioridade", "por_chegada"}, u \in BOOLEAN :
              LET o == simular(Original, estrutura, algoritmo_ord, r, u) IN
              /\ SameSchedule(o)
              /\ Numeros(o.stats) = Numeros(stats)
              /\ o.undo_stack = IF u THEN atendidos ELSE << >>

\* a returned run under 'lista' with reorder_rule 'por_chegada' and
\* registrar_undo set, that served three clients in an order that is not
\* the order of arrival and recorded them for undo
C18_Witness ==
    /\ pc = "fim"
    /\ estrutura = "lista"
    /\ reorder_rule = "por_chegada"
    /\ registrar_undo
    /\ Len(atendidos) = 3
    /\ atendidos # chegadas
    /\ undo_stack = atendidos


\* the run of simular on the same input and options with the other sort
OutroAlgoritmo ==
    simular(Original, estrutura, IF algoritmo_ord = "merge" THEN "quick" ELSE "merge",
            reorder_rule, registrar_undo)

\* the lists of at most Len(clientes) elements drawn from the input's
\* clients, in any order and with repetition
Listas == UNION { [1..n -> Ids] : n \in 0..Len(clientes) }

ChaveChegada == [i \in Ids |-> clientes[i].chegada]

(* C19: sort-choice independence.  quick_sort and merge_sort return exactly
   the same sequence, equal-key elements in the same relative order: on the
   list simular sorts, which is what chegadas holds after the sort, and on
   every list made of the input's clients; so simular with 'merge' and with
   'quick' (same input, same structure) return the same served order and
   the same timestamps. *)
C19_SortChoiceIndependent ==
    /\ pc \notin {"entrada", "ordenar"} =>
          /\ chegadas = merge_sort([i \in Ids |-> i], ChaveChegada)
          /\ chegadas = quick_sort([i \in Ids |-> i], ChaveChegada)
    /\ (pc = "laco" /\ atendidos = << >>) =>
          \A arr \in Listas :
              quick_sort(arr, ChaveChegada) = merge_sort(arr, ChaveChegada)
    /\ pc = "fim" => SameSchedule(OutroAlgoritmo)

\* a returned run that sorted with quick_sort a list whose pivot has an
\* equal-key element before it and a smaller-key element after it
C19_Witness ==
    /\ pc = "fim"
    /\ algoritmo_ord = "quick"
    /\ Len(clientes) = 3
    /\ clientes[1].chegada = clientes[2].chegada
    /\ clientes[3].chegada < clientes[2].chegada
    /\ chegadas = << 3, 1, 2 >>
    /\ SameSchedule(OutroAlgoritmo)


\* two clients of one category share an arrival time
Empate(x, y) ==
    /\ x # y
    /\ clientes[x].tipo = clientes[y].tipo
    /\ clientes[x].chegada = clientes[y].chegada

(* C20: the disciplines coincide even with ties.  For every input with
   known categories, clients of one category sharing an arrival time
   included, simular with 'lista' and with 'prioridade' (same sort) return
   the same served order and the same timestamps; because clients are
   pushed in the order of chegadas, which is non-decreasing in arrival
   time, the heap's key (priority, arrival, counter) orders the entries of
   each priority by the order of their insertion. *)
C20_DisciplinesCoincide ==
    /\ pc = "fim" => SameSchedule(OutraEstrutura)
    /\ (estrutura = "prioridade" /\ pc \notin {"entrada", "ordenar"}) =>
          \A e, f \in heap :
              /\ e[3] < f[3] <=> Pos(chegadas, e[4]) < Pos(chegadas, f[4])
              /\ e[3] < f[3] => e[2] <= f[2]
              /\ (e[1] = f[1] /\ e # f) => (TupleLess(e, f) <=> e[3] < f[3])

\* a returned run under 'prioridade' of three clients, two of them of one
\* category and one arrival time that waited in the heap together while
\* the third was served
C20_Witness ==
    /\ pc = "fim"
    /\ estrutura = "prioridade"
    /\ Len(atendidos) = 3
    /\ \E x, y \in Ids :
        /\ Empate(x, y)
        /\ Pos(atendidos, x) < Pos(atendidos, y)
        /\ Val(clientes[x].inicio_atendimento) > clientes[x].chegada
    /\ SameSchedule(OutraEstrutura)

====
